---- MODULE Spec2Model ----
(***************************************************************************)
(* Batch image-transformation engine (class ImageResizer of                *)
(* image_resizer.py): validate_images, calculate_new_size, apply_filters,  *)
(* process_image, stop_processing and batch_resize, with one processing    *)
(* thread running batch_resize and external callers of stop_processing.    *)
(***************************************************************************)
EXTENDS Integers, Sequences, FiniteSets, TLC

(***************************************************************************)
(* Bounds of the model.                                                    *)
(***************************************************************************)
MaxFiles == 3

NumStoppers == 1

MaxFilters == 2

MaxSize == 2

MaxInputs == 2

(***************************************************************************)
(* Paths and the file system.  A path is its directory, stem and suffix;   *)
(* stem and suffix are sequences of characters, so that Path.name,         *)
(* str.lower() and the output name are computed, not assumed.              *)
(***************************************************************************)
Path(dir, stem, suffix) == [dir |-> dir, stem |-> stem, suffix |-> suffix]

PathA1 == Path("d1", <<"a">>, <<".", "j", "p", "g">>)

PathA2 == Path("d2", <<"a">>, <<".", "j", "p", "g">>)

PathB == Path("d1", <<"b">>, <<".", "P", "N", "G">>)

PathC == Path("d1", <<"c">>, <<".", "p", "n", "g">>)

PathD == Path("d1", <<"d">>, <<".", "t", "x", "t">>)

PathM == Path("d1", <<"m">>, <<".", "j", "p", "g">>)

PathE == Path("d1", <<"e">>, <<".", "j", "p", "e", "g">>)

\* What is on disk under each path: is_file() and what cv2.imread makes of
\* the content ("image" decodes to a 3-channel buffer w x h, "corrupt" makes
\* imread return None, "unreadable" makes it raise).
Image(w, h) == [is_file |-> TRUE, content |-> "image", w |-> w, h |-> h]

Disk(p) ==
    CASE p = PathA1 -> Image(125, 2)
      [] p = PathA2 -> Image(2, 6)
      [] p = PathB -> Image(49, 49)
      [] p = PathC -> [is_file |-> TRUE, content |-> "corrupt", w |-> 0, h |-> 0]
      [] p = PathD -> Image(2, 2)
      [] p = PathE -> [is_file |-> TRUE, content |-> "unreadable", w |-> 0, h |-> 0]
      [] OTHER -> [is_file |-> FALSE, content |-> "none", w |-> 0, h |-> 0]

\* Path.name
Name(p) == p.stem \o p.suffix

\* str.lower() on the characters a suffix is made of
LowerChar(c) ==
    CASE c = "J" -> "j"
      [] c = "P" -> "p"
      [] c = "G" -> "g"
      [] c = "N" -> "n"
      [] c = "T" -> "t"
      [] c = "X" -> "x"
      [] OTHER -> c

Lower(s) == [i \in 1..Len(s) |-> LowerChar(s[i])]

\* self.valid_extensions
valid_extensions ==
    { <<".", "j", "p", "g">>, <<".", "j", "p", "e", "g">>, <<".", "p", "n", "g">>,
      <<".", "b", "m", "p">>, <<".", "t", "i", "f", "f">>, <<".", "w", "e", "b", "p">> }

\* cv2.imread at validation time: TRUE iff it returns a buffer; when it
\* returns None, and when it raises and the except clause is taken, the file
\* is appended to invalid
Decodes(p) == Disk(p).content = "image"

\* Mutant: the suffix is compared as it is written
IsValidMut(p) == Disk(p).is_file /\ p.suffix \in valid_extensions /\ Decodes(p)

\* The test of validate_images on one file
IsValid(p) == Disk(p).is_file /\ Lower(p.suffix) \in valid_extensions /\ Decodes(p)

\* validate_images: the loop over self.image_files appends each file to valid
\* or to invalid; the result is the pair <<valid, invalid>>
RECURSIVE validate_loop(_, _, _)
validate_loop(files, valid, invalid) ==
    IF files = <<>> THEN <<valid, invalid>>
    ELSE IF IsValid(Head(files))
         THEN validate_loop(Tail(files), Append(valid, Head(files)), invalid)
         ELSE validate_loop(Tail(files), valid, Append(invalid, Head(files)))

Reverse(s) == [i \in 1..Len(s) |-> s[Len(s) + 1 - i]]

\* Mutant: the valid files come out last first
validate_imagesMut(files) ==
    << Reverse(validate_loop(files, <<>>, <<>>)[1]), validate_loop(files, <<>>, <<>>)[2] >>

validate_images(files) == validate_loop(files, <<>>, <<>>)

\* [f.name for f in files]
Names(files) == [i \in 1..Len(files) |-> Name(files[i])]

(***************************************************************************)
(* calculate_new_size.  size_params is the keyword dictionary: a set of    *)
(* <<key, value>> pairs with at most one pair per key; a key that is       *)
(* absent is None.  None and 0 are both false in the tests of the code.    *)
(* A width or a height is an integer; a percentage is a number of tenths.  *)
(***************************************************************************)
Has(sp, k) == \E kv \in sp : kv[1] = k

Get(sp, k) == (CHOOSE kv \in sp : kv[1] = k)[2]

Truthy(sp, k) == Has(sp, k) /\ Get(sp, k) # 0

(***************************************************************************)
(* Float arithmetic.  width / orig_width, orig_height * ratio and          *)
(* orig_width * percentage / 100 are IEEE 754 double operations, each      *)
(* rounded to nearest, ties to even.  A positive double is a significand   *)
(* of at most Precision bits, most significant first, and the power of two *)
(* e that its last bit weighs: its value is the significand times 2^e.     *)
(***************************************************************************)
Precision == 53

Double(m, e) == [m |-> m, e |-> e]

\* The number of bits of a natural number below 2^30, 0 for 0
BitLen(n) == CHOOSE l \in 0..30 : n < 2^l /\ (l = 0 \/ 2^(l - 1) <= n)

\* The last l bits of a natural number, most significant first
FixedBits(n, l) == [i \in 1..l |-> (n \div 2^(l - i)) % 2]

\* The bits of a natural number, most significant first, <<>> for 0
IntBits(n) == FixedBits(n, BitLen(n))

\* The natural number that at most 30 bits are
RECURSIVE BitsToInt(_)
BitsToInt(bits) ==
    IF Len(bits) = 0 THEN 0
    ELSE IF Len(bits) = 1 THEN bits[1]
    ELSE LET h == Len(bits) \div 2
         IN  BitsToInt(SubSeq(bits, 1, h)) * 2^(Len(bits) - h)
                 + BitsToInt(SubSeq(bits, h + 1, Len(bits)))

\* bits + 1, one bit longer when every bit is 1
IncBits(bits) ==
    IF \A i \in 1..Len(bits) : bits[i] = 1
    THEN [i \in 1..(Len(bits) + 1) |-> IF i = 1 THEN 1 ELSE 0]
    ELSE LET z == CHOOSE i \in 1..Len(bits) :
                      bits[i] = 0 /\ \A j \in (i + 1)..Len(bits) : bits[j] = 1
         IN  [i \in 1..Len(bits) |-> IF i < z THEN bits[i] ELSE IF i = z THEN 1 ELSE 0]

\* Round to nearest, ties to even: the exact value is (bits + a fraction of
\* the last bit that is non-zero iff sticky) * 2^e
RoundBits(bits, e, sticky) ==
    IF Len(bits) <= Precision
    THEN Double(bits, e)
    ELSE LET kept == SubSeq(bits, 1, Precision)
             rest == SubSeq(bits, Precision + 1, Len(bits))
             more == sticky \/ \E i \in 2..Len(rest) : rest[i] = 1
             up == rest[1] = 1 /\ (more \/ kept[Precision] = 1)
             e2 == e + Len(rest)
             inc == IncBits(kept)
         IN  IF ~up THEN Double(kept, e2)
             ELSE IF Len(inc) > Precision
                  THEN Double(SubSeq(inc, 1, Precision), e2 + 1)
                  ELSE Double(inc, e2)

\* 2^i modulo d, for d below 2^15
RECURSIVE Pow2Mod(_, _)
Pow2Mod(i, d) ==
    IF i = 0 THEN 1 % d
    ELSE LET h == Pow2Mod(i \div 2, d)
         IN  (h * h * (IF i % 2 = 1 THEN 2 ELSE 1)) % d

\* The long division r / d for 0 <= r < d: the remainder after i bits of the
\* quotient, and the i-th bit
DivRem(r, d, i) == (Pow2Mod(i, d) * r) % d

DivBit(r, d, i) == (2 * DivRem(r, d, i - 1)) \div d

Min(a, b) == IF a <= b THEN a ELSE b

\* The bits that a multiplication or a division handles at once
Chunk(bits) == Min(13, Len(bits))

\* bits without its leading zeros
Strip(bits) ==
    IF \A i \in 1..Len(bits) : bits[i] = 0 THEN <<>>
    ELSE LET z == CHOOSE i \in 1..Len(bits) :
                      bits[i] = 1 /\ \A j \in 1..(i - 1) : bits[j] = 0
         IN  SubSeq(bits, z, Len(bits))

\* (r * 2^Len(bits) + bits) divided by an integer d below 2^15, for r < d, a
\* chunk at a time from the most significant end: the quotient, as long as
\* bits, and the remainder
RECURSIVE DivChunks(_, _, _)
DivChunks(bits, d, r) ==
    IF bits = <<>> THEN [q |-> <<>>, r |-> r]
    ELSE LET l == Chunk(bits)
             v == r * 2^l + BitsToInt(SubSeq(bits, 1, l))
             rest == DivChunks(SubSeq(bits, l + 1, Len(bits)), d, v % d)
         IN  [q |-> FixedBits(v \div d, l) \o rest.q, r |-> rest.r]

\* x / d as a double, for a double x > 0 and an integer d > 0: the integer
\* part of the quotient of the significands, then the long division of the
\* remainder, to one bit more than the precision from the first 1 on; what is
\* left decides the rounding
DoubleDiv(x, d) ==
    LET qr == DivChunks(x.m, d, 0)
        int == Strip(qr.q)
        first == IF int # <<>> THEN 1
                 ELSE CHOOSE i \in 1..31 :
                          DivBit(qr.r, d, i) = 1
                              /\ \A j \in 1..(i - 1) : DivBit(qr.r, d, j) = 0
        last == first + Precision - Len(int)
        frac == [i \in 1..(last - first + 1) |-> DivBit(qr.r, d, first + i - 1)]
    IN  RoundBits(int \o frac, x.e - last, DivRem(qr.r, d, last) # 0)

\* n / d as a double, for integers 0 < n < 2^30 and d > 0
FloatDiv(n, d) == DoubleDiv(Double(IntBits(n), 0), d)

\* bits * k + carry for an integer k below 2^17, a chunk at a time from the
\* least significant end
RECURSIVE MulBits(_, _, _)
MulBits(bits, k, carry) ==
    IF bits = <<>> THEN IntBits(carry)
    ELSE LET l == Chunk(bits)
             t == BitsToInt(SubSeq(bits, Len(bits) - l + 1, Len(bits))) * k + carry
         IN  MulBits(SubSeq(bits, 1, Len(bits) - l), k, t \div 2^l)
                 \o FixedBits(t % 2^l, l)

\* k * x as a double, for an integer k > 0 and a double x
FloatMul(k, x) == RoundBits(MulBits(x.m, k, 0), x.e, FALSE)

\* int(x) for a positive double x below 2^30
FloatToInt(x) ==
    IF x.e >= 0 THEN BitsToInt(x.m) * 2^(x.e)
    ELSE IF Len(x.m) + x.e <= 0 THEN 0
    ELSE BitsToInt(SubSeq(x.m, 1, Len(x.m) + x.e))

Abs(n) == IF n >= 0 THEN n ELSE -n

Sign(n) == IF n > 0 THEN 1 ELSE IF n < 0 THEN -1 ELSE 0

\* A percentage is a decimal literal with one fractional digit, held as its
\* number of tenths t: the double that it is read as
Percentage(t) == FloatDiv(t, 10)

\* int(k * percentage / 100) for k > 0: the product, then the quotient, then
\* the truncation towards zero
IntPercent(k, t) ==
    IF t = 0 THEN 0
    ELSE Sign(t) * FloatToInt(DoubleDiv(FloatMul(k, Percentage(Abs(t))), 100))

\* int(k * (n / d)) for k > 0 and d > 0: ratio = n / d, then int(k * ratio)
IntScale(k, n, d) ==
    IF n = 0 THEN 0 ELSE Sign(n) * FloatToInt(FloatMul(k, FloatDiv(Abs(n), d)))

Max(a, b) == IF a >= b THEN a ELSE b

\* Mutant: a width and a height together go before the percentage
PolicyMut(sp) ==
    IF Truthy(sp, "width") /\ Truthy(sp, "height") THEN "fixed"
    ELSE IF Truthy(sp, "percentage") THEN "percentage"
    ELSE IF Truthy(sp, "width") THEN "width"
    ELSE IF Truthy(sp, "height") THEN "height"
    ELSE "ValueError"

\* The branch of calculate_new_size that is taken
Policy(sp) ==
    IF Truthy(sp, "percentage") THEN "percentage"
    ELSE IF Truthy(sp, "width") /\ Truthy(sp, "height") THEN "fixed"
    ELSE IF Truthy(sp, "width") THEN "width"
    ELSE IF Truthy(sp, "height") THEN "height"
    ELSE "ValueError"

\* (new_width, new_height) before the final max(1, .)
RawSize(ow, oh, sp) ==
    CASE Policy(sp) = "percentage" ->
            << IntPercent(ow, Get(sp, "percentage")),
               IntPercent(oh, Get(sp, "percentage")) >>
      [] Policy(sp) = "fixed" -> << Get(sp, "width"), Get(sp, "height") >>
      [] Policy(sp) = "width" ->
            << Get(sp, "width"), IntScale(oh, Get(sp, "width"), ow) >>
      [] Policy(sp) = "height" ->
            << IntScale(ow, Get(sp, "height"), oh), Get(sp, "height") >>

calculate_new_size(ow, oh, sp) ==
    LET raw == RawSize(ow, oh, sp)
    IN  << Max(1, raw[1]), Max(1, raw[2]) >>

(***************************************************************************)
(* Image buffers and the filter kernels.  A buffer records the file it was *)
(* decoded from, its size, its channel count and the kernels applied.      *)
(***************************************************************************)
NoImage == [src |-> <<>>, w |-> 0, h |-> 0, ch |-> 0, ops |-> <<>>]

\* cv2.imread(path) with the default flag: a 3-channel BGR buffer
Imread(p) == [src |-> <<p>>, w |-> Disk(p).w, h |-> Disk(p).h, ch |-> 3, ops |-> <<>>]

\* cv2.resize(image, new_size)
Resized(img, size) == [img EXCEPT !.w = size[1], !.h = size[2]]

\* FilterType, in the order of the enumeration and of the dispatch table
FilterOrder ==
    << "grayscale", "blur", "sharpen", "edge_detect",
       "brightness", "contrast", "rotate", "flip" >>

FilterNames == { FilterOrder[i] : i \in 1..Len(FilterOrder) }

\* The kernels that start with a cv2.cvtColor from BGR: cvtColor raises on a
\* buffer that is not 3-channel
NeedsBGR == { "grayscale", "edge_detect", "brightness", "contrast" }

\* apply_grayscale returns the single-channel result of COLOR_BGR2GRAY; every
\* other kernel returns as many channels as a BGR buffer or as its input
ChannelsAfter(name, ch) == IF name = "grayscale" THEN 1 ELSE ch

KernelRaises(name, img) == name \in NeedsBGR /\ img.ch # 3

Kernel(name, img) ==
    [img EXCEPT !.ch = ChannelsAfter(name, img.ch), !.ops = Append(img.ops, name)]

\* Mutant: an entry without the 'enabled' key counts as enabled
EnabledMut(entry) ==
    IF "enabled" \in DOMAIN entry.params THEN entry.params.enabled ELSE TRUE

\* filter_config is the dictionary in its iteration order: a sequence of
\* entries [name, params] with distinct names.  params.get('enabled', False)
Enabled(entry) ==
    IF "enabled" \in DOMAIN entry.params THEN entry.params.enabled ELSE FALSE

\* The entry passes both tests of the loop body: enabled, and in the table
Active(entry) == Enabled(entry) /\ entry.name \in FilterNames

\* Mutant: the loop stops at every entry, enabled and known or not
NextActiveMut(cfg, i) == i

\* The first position from i on whose entry reaches the lock of the loop
\* body, Len + 1 when the loop ends
RECURSIVE NextActive(_, _)
NextActive(cfg, i) ==
    IF i > Len(cfg) THEN i
    ELSE IF Active(cfg[i]) THEN i
    ELSE NextActive(cfg, i + 1)

(***************************************************************************)
(* State.  The first four variables are the arguments of the constructor   *)
(* and of batch_resize; they never change.                                 *)
(***************************************************************************)
VARIABLES
    image_files,        \* self.image_files
    size_params,        \* batch_resize's size_params
    filter_config,      \* batch_resize's filter_config
    progress_callback,  \* TRUE iff a progress callback is supplied
    should_stop,        \* self.should_stop
    lock,               \* self.lock: "free", "worker" or "stopper"
    spc,                \* where each caller of stop_processing is
    pc,                 \* where the processing thread is
    valid_files,        \* locals of batch_resize
    invalid_files,
    idx,                \* 1-based position in valid_files (idx + 1 of the code)
    success_count,
    total,
    error_files,
    image,              \* the buffer of process_image (image / resized / processed)
    fidx,               \* position of apply_filters in filter_config
    result,             \* <<>> until batch_resize returns, then the returned triple
    output_folder,      \* output name -> <<>> (no file) or <<buffer written>>
    calls,              \* the progress callback's invocations, in order
    returns,            \* process_image's return values, in order
    decoded,            \* positions whose process_image called cv2.imread
    saved,              \* positions whose process_image called cv2.imwrite
    written,            \* positions whose cv2.imwrite wrote the file
    skipped,            \* positions of the filter_config whose stage saw the flag set
    stopped,            \* TRUE once a stop_processing call has returned
    prestopped,         \* TRUE iff one had returned when batch_resize was called
    after_stop          \* positions whose process_image began after such a return

inputs == << image_files, size_params, filter_config, progress_callback >>

engine == << should_stop, lock >>

locals == << valid_files, invalid_files, idx, success_count, total, error_files,
             image, fidx, result >>

history == << calls, returns, decoded, saved, written, skipped, stopped, prestopped,
             after_stop >>

vars == << inputs, engine, spc, pc, locals, output_folder, history >>

Stoppers == 1..NumStoppers

\* Every output name a file of the model can be written under
AllPaths == { PathA1, PathA2, PathB, PathC, PathD, PathM, PathE }

OutputNames == { Name(p) : p \in AllPaths }

(***************************************************************************)
(* The inputs a run is started with.                                       *)
(***************************************************************************)
RECURSIVE SeqsUpTo(_, _)
SeqsUpTo(S, n) ==
    IF n = 0 THEN { <<>> }
    ELSE SeqsUpTo(S, n - 1) \cup
         { Append(q, x) : q \in { r \in SeqsUpTo(S, n - 1) : Len(r) = n - 1 }, x \in S }

Entry(name, params) == [name |-> name, params |-> params]

On == [enabled |-> TRUE]

Off == [enabled |-> FALSE]

\* an entry without the 'enabled' key
Unset == [value |-> 30]

\* A dictionary has one entry per key
DistinctNames(cfg) ==
    \A i, j \in 1..Len(cfg) : i # j => cfg[i].name # cfg[j].name

Configs(entries, n) == { cfg \in SeqsUpTo(entries, n) : DistinctNames(cfg) }

\* Size parameters: every combination of an absent or supplied width, height
\* and percentage, the supplied values negative, zero and positive
SizeValues == -1..MaxSize

\* -50.0, 0.0, 2.4, 50.0 and 258.4 percent
Percentages == { -500, 0, 24, 500, 2584 }

Keyed(k, values) == { {} } \cup { { << k, v >> } : v \in values }

AllSizes ==
    { w \cup h \cup q : w \in Keyed("width", SizeValues),
                        h \in Keyed("height", SizeValues),
                        q \in Keyed("percentage", Percentages) }

\* The shapes of the buffers that cv2.imread gives
Shapes == { << Disk(p).w, Disk(p).h >> : p \in { q \in AllPaths : Decodes(q) } }

\* new_size = self.calculate_new_size((orig_width, orig_height), **size_params)
\* for every shape and every size_params with a policy, computed once
new_size ==
    [ shape \in Shapes, sp \in { q \in AllSizes : Policy(q) # "ValueError" } |->
          calculate_new_size(shape[1], shape[2], sp) ]

\* The state after ImageResizer.__init__, before batch_resize is called
InitWith(files, sizes, configs) ==
    /\ image_files \in files
    /\ size_params \in sizes
    /\ filter_config \in configs
    /\ progress_callback \in BOOLEAN
    /\ should_stop = FALSE
    /\ lock = "free"
    /\ spc = [s \in Stoppers |-> "idle"]
    /\ pc = "idle"
    /\ valid_files = <<>>
    /\ invalid_files = <<>>
    /\ idx = 0
    /\ success_count = 0
    /\ total = 0
    /\ error_files = <<>>
    /\ image = NoImage
    /\ fidx = 0
    /\ result = <<>>
    /\ output_folder = [n \in OutputNames |-> <<>>]
    /\ calls = <<>>
    /\ returns = <<>>
    /\ decoded = {}
    /\ saved = {}
    /\ written = {}
    /\ skipped = {}
    /\ stopped = FALSE
    /\ prestopped = FALSE
    /\ after_stop = {}

(***************************************************************************)
(* batch_resize, on the processing thread.                                 *)
(***************************************************************************)
\* The loop of batch_resize moves to the next valid file, or ends
Advance ==
    IF idx < total
    THEN pc' = "entry" /\ idx' = idx + 1
    ELSE pc' = "return" /\ idx' = idx

\* Mutant: a failed file's name is not appended to error_files
FinishMut(r) ==
    /\ returns' = Append(returns, r)
    /\ IF r
       THEN success_count' = success_count + 1 /\ UNCHANGED error_files
       ELSE UNCHANGED << error_files, success_count >>
    /\ image' = NoImage
    /\ fidx' = 0
    /\ IF progress_callback THEN pc' = "callback" /\ idx' = idx ELSE Advance

\* Mutant: a failed file ends the loop
FinishAbort(r) ==
    /\ returns' = Append(returns, r)
    /\ IF r
       THEN success_count' = success_count + 1 /\ UNCHANGED error_files
       ELSE error_files' = Append(error_files, Name(valid_files[idx]))
            /\ UNCHANGED success_count
    /\ image' = NoImage
    /\ fidx' = 0
    /\ IF ~r THEN pc' = "return" /\ idx' = idx
       ELSE IF progress_callback THEN pc' = "callback" /\ idx' = idx ELSE Advance

\* Mutant: the loop goes on without the progress callback
FinishNoWait(r) ==
    /\ returns' = Append(returns, r)
    /\ IF r
       THEN success_count' = success_count + 1 /\ UNCHANGED error_files
       ELSE error_files' = Append(error_files, Name(valid_files[idx]))
            /\ UNCHANGED success_count
    /\ image' = NoImage
    /\ fidx' = 0
    /\ Advance

\* process_image returns r for valid_files[idx]; batch_resize counts it or
\* appends its name to error_files, then reaches the progress callback
Finish(r) ==
    /\ returns' = Append(returns, r)
    /\ IF r
       THEN success_count' = success_count + 1 /\ UNCHANGED error_files
       ELSE error_files' = Append(error_files, Name(valid_files[idx]))
            /\ UNCHANGED success_count
    /\ image' = NoImage
    /\ fidx' = 0
    /\ IF progress_callback THEN pc' = "callback" /\ idx' = idx ELSE Advance

\* process_image goes on with the same file
Continue(to, img, f) ==
    /\ pc' = to
    /\ image' = img
    /\ fidx' = f
    /\ UNCHANGED << idx, returns, success_count, error_files >>

\* The call of batch_resize
BatchResize ==
    /\ pc = "idle"
    /\ pc' = "validate"
    /\ prestopped' = stopped
    /\ UNCHANGED << inputs, engine, spc, locals, output_folder, calls, returns,
                    decoded, saved, written, skipped, stopped, after_stop >>

\* Mutant: the early return gives the names of the valid files
ValidateMut ==
    /\ pc = "validate"
    /\ valid_files' = validate_images(image_files)[1]
    /\ invalid_files' = validate_images(image_files)[2]
    /\ IF valid_files' = <<>>
       THEN /\ result' = << 0, 0, Names(valid_files') >>
            /\ pc' = "done"
            /\ UNCHANGED << success_count, total, error_files, idx >>
       ELSE /\ success_count' = 0
            /\ total' = Len(valid_files')
            /\ error_files' = <<>>
            /\ idx' = 1
            /\ pc' = "entry"
            /\ UNCHANGED result
    /\ UNCHANGED << inputs, engine, spc, image, fidx, output_folder, history >>

\* valid_files, invalid_files = self.validate_images(); the early return when
\* nothing is valid; else the initialisation of the loop
Validate ==
    /\ pc = "validate"
    /\ valid_files' = validate_images(image_files)[1]
    /\ invalid_files' = validate_images(image_files)[2]
    /\ IF valid_files' = <<>>
       THEN /\ result' = << 0, 0, Names(invalid_files') >>
            /\ pc' = "done"
            /\ UNCHANGED << success_count, total, error_files, idx >>
       ELSE /\ success_count' = 0
            /\ total' = Len(valid_files')
            /\ error_files' = <<>>
            /\ idx' = 1
            /\ pc' = "entry"
            /\ UNCHANGED result
    /\ UNCHANGED << inputs, engine, spc, image, fidx, output_folder, history >>

\* Mutant: process_image reads the flag without taking the lock
EntryAcquireMut ==
    /\ pc = "entry"
    /\ lock' = lock
    /\ pc' = "check"
    /\ after_stop' = IF stopped THEN after_stop \cup {idx} ELSE after_stop
    /\ UNCHANGED << inputs, should_stop, spc, locals, output_folder,
                    calls, returns, decoded, saved, written, skipped, stopped, prestopped >>

\* process_image is entered and takes the lock of its first statement
EntryAcquire ==
    /\ pc = "entry"
    /\ lock = "free"
    /\ lock' = "worker"
    /\ pc' = "check"
    /\ after_stop' = IF stopped THEN after_stop \cup {idx} ELSE after_stop
    /\ UNCHANGED << inputs, should_stop, spc, locals, output_folder,
                    calls, returns, decoded, saved, written, skipped, stopped, prestopped >>

\* Mutant: process_image does not look at the flag on entry
EntryCheckMut ==
    /\ pc = "check"
    /\ lock' = "free"
    /\ Continue("read", image, fidx)
    /\ UNCHANGED << inputs, should_stop, spc, valid_files, invalid_files, total,
                    result, output_folder, calls, decoded, saved, written, skipped,
                    stopped, prestopped, after_stop >>

\* if self.should_stop: return False, under the lock, which is then released
EntryCheck ==
    /\ pc = "check"
    /\ lock' = "free"
    /\ IF should_stop THEN Finish(FALSE) ELSE Continue("read", image, fidx)
    /\ UNCHANGED << inputs, should_stop, spc, valid_files, invalid_files, total,
                    result, output_folder, calls, decoded, saved, written, skipped,
                    stopped, prestopped, after_stop >>

\* image = cv2.imread(...): the file decodes, or it no longer does (None)
ReadImage ==
    /\ pc = "read"
    /\ decoded' = decoded \cup {idx}
    /\ \/ Continue("resize", Imread(valid_files[idx]), fidx)
       \/ Finish(FALSE)
    /\ UNCHANGED << inputs, engine, spc, valid_files, invalid_files, total,
                    result, output_folder, calls, saved, written, skipped, stopped,
                    prestopped, after_stop >>

\* new_size = self.calculate_new_size(...), whose ValueError the except clause
\* of process_image turns into return False; then cv2.resize, and the first
\* iteration of apply_filters that reaches the lock
Resize ==
    /\ pc = "resize"
    /\ IF Policy(size_params) = "ValueError"
       THEN Finish(FALSE)
       ELSE Continue(
                IF NextActive(filter_config, 1) > Len(filter_config)
                THEN "save" ELSE "filter",
                Resized(image, new_size[<< image.w, image.h >>, size_params]),
                NextActive(filter_config, 1))
    /\ UNCHANGED << inputs, engine, spc, valid_files, invalid_files, total,
                    result, output_folder, calls, decoded, saved, written, skipped,
                    stopped, prestopped, after_stop >>

\* with self.lock: of the loop body of apply_filters
FilterAcquire ==
    /\ pc = "filter"
    /\ lock = "free"
    /\ lock' = "worker"
    /\ pc' = "kernel"
    /\ UNCHANGED << inputs, should_stop, spc, locals, output_folder, history >>

\* Mutant: the loop body applies the filter without looking at the flag
FilterApplyMut ==
    /\ pc = "kernel"
    /\ lock' = "free"
    /\ skipped' = IF should_stop THEN skipped \cup {idx} ELSE skipped
    /\ IF KernelRaises(filter_config[fidx].name, image)
       THEN Finish(FALSE)
       ELSE Continue(
                IF NextActive(filter_config, fidx + 1) > Len(filter_config)
                THEN "save" ELSE "filter",
                Kernel(filter_config[fidx].name, image),
                NextActive(filter_config, fidx + 1))
    /\ UNCHANGED << inputs, should_stop, spc, valid_files, invalid_files, total,
                    result, output_folder, calls, decoded, saved, written, stopped,
                    prestopped, after_stop >>

\* if not self.should_stop: image = apply_func(image, **params), under the
\* lock; a kernel that raises ends process_image with False; then the loop
\* goes to the next entry that reaches the lock
FilterApply ==
    /\ pc = "kernel"
    /\ lock' = "free"
    /\ skipped' = IF should_stop THEN skipped \cup {idx} ELSE skipped
    /\ IF ~should_stop /\ KernelRaises(filter_config[fidx].name, image)
       THEN Finish(FALSE)
       ELSE Continue(
                IF NextActive(filter_config, fidx + 1) > Len(filter_config)
                THEN "save" ELSE "filter",
                IF should_stop THEN image
                ELSE Kernel(filter_config[fidx].name, image),
                NextActive(filter_config, fidx + 1))
    /\ UNCHANGED << inputs, should_stop, spc, valid_files, invalid_files, total,
                    result, output_folder, calls, decoded, saved, written, stopped,
                    prestopped, after_stop >>

\* output_name = f"{prefix}{stem}{suffix}" with the default prefix ""
OutputName(p) == <<>> \o p.stem \o p.suffix

\* Mutant: a file that exists under the output name is kept
SaveImageKeep ==
    /\ pc = "save"
    /\ saved' = saved \cup {idx}
    /\ \/ /\ output_folder' =
                IF output_folder[OutputName(valid_files[idx])] = <<>>
                THEN [output_folder EXCEPT ![OutputName(valid_files[idx])] = <<image>>]
                ELSE output_folder
          /\ written' = written \cup {idx}
          /\ Finish(TRUE)
       \/ /\ UNCHANGED << output_folder, written >>
          /\ Finish(TRUE)
       \/ /\ UNCHANGED << output_folder, written >>
          /\ Finish(FALSE)
    /\ UNCHANGED << inputs, engine, spc, valid_files, invalid_files, total,
                    result, calls, decoded, skipped, stopped,
                    prestopped, after_stop >>

\* cv2.imwrite(...): it writes the file, or it returns False without writing
\* (the return value is not looked at), or it raises; return True unless it
\* raised
SaveImage ==
    /\ pc = "save"
    /\ saved' = saved \cup {idx}
    /\ \/ /\ output_folder' =
                [output_folder EXCEPT ![OutputName(valid_files[idx])] = <<image>>]
          /\ written' = written \cup {idx}
          /\ Finish(TRUE)
       \/ /\ UNCHANGED << output_folder, written >>
          /\ Finish(TRUE)
       \/ /\ UNCHANGED << output_folder, written >>
          /\ Finish(FALSE)
    /\ UNCHANGED << inputs, engine, spc, valid_files, invalid_files, total,
                    result, calls, decoded, skipped, stopped,
                    prestopped, after_stop >>

\* Mutant: the callback is given the 0-based idx
CallbackMut ==
    /\ pc = "callback"
    /\ calls' = Append(calls, << idx - 1, total, Name(valid_files[idx]) >>)
    /\ \/ Advance
       \/ pc' = "raised" /\ idx' = idx
    /\ UNCHANGED << inputs, engine, spc, valid_files, invalid_files,
                    success_count, total, error_files, image, fidx, result,
                    output_folder, returns, decoded, saved, written, skipped, stopped,
                    prestopped, after_stop >>

\* Mutant: batch_resize absorbs the exception and returns its counts
CallbackAbsorb ==
    /\ pc = "callback"
    /\ calls' = Append(calls, << idx, total, Name(valid_files[idx]) >>)
    /\ \/ Advance /\ UNCHANGED result
       \/ /\ pc' = "raised" /\ idx' = idx
          /\ result' = << success_count, total, error_files >>
    /\ UNCHANGED << inputs, engine, spc, valid_files, invalid_files,
                    success_count, total, error_files, image, fidx,
                    output_folder, returns, decoded, saved, written, skipped, stopped,
                    prestopped, after_stop >>

\* progress_callback(idx + 1, total, image_path.name): it returns, or it
\* raises and the exception leaves batch_resize
Callback ==
    /\ pc = "callback"
    /\ calls' = Append(calls, << idx, total, Name(valid_files[idx]) >>)
    /\ \/ Advance
       \/ pc' = "raised" /\ idx' = idx
    /\ UNCHANGED << inputs, engine, spc, valid_files, invalid_files,
                    success_count, total, error_files, image, fidx, result,
                    output_folder, returns, decoded, saved, written, skipped, stopped,
                    prestopped, after_stop >>

\* Mutant: the invalid files' names are not appended
ReturnMut ==
    /\ pc = "return"
    /\ error_files' = error_files
    /\ result' = << success_count, total, error_files' >>
    /\ pc' = "done"
    /\ UNCHANGED << inputs, engine, spc, valid_files, invalid_files, idx,
                    success_count, total, image, fidx, output_folder, history >>

\* error_files.extend(...) and return success_count, total, error_files
Return ==
    /\ pc = "return"
    /\ error_files' = error_files \o Names(invalid_files)
    /\ result' = << success_count, total, error_files' >>
    /\ pc' = "done"
    /\ UNCHANGED << inputs, engine, spc, valid_files, invalid_files, idx,
                    success_count, total, image, fidx, output_folder, history >>

(***************************************************************************)
(* stop_processing, on any other thread, any number of times.              *)
(***************************************************************************)
\* with self.lock:
StopAcquire(s) ==
    /\ spc[s] \in { "idle", "returned" }
    /\ lock = "free"
    /\ lock' = "stopper"
    /\ spc' = [spc EXCEPT ![s] = "locked"]
    /\ UNCHANGED << inputs, should_stop, pc, locals, output_folder, history >>

\* Mutant: stop_processing returns without setting the flag
StopSetMut(s) ==
    /\ spc[s] = "locked"
    /\ should_stop' = should_stop
    /\ lock' = "free"
    /\ spc' = [spc EXCEPT ![s] = "returned"]
    /\ stopped' = TRUE
    /\ UNCHANGED << inputs, pc, locals, output_folder,
                    calls, returns, decoded, saved, written, skipped, prestopped,
                    after_stop >>

\* Mutant: stop_processing returns with the lock held
StopSetKeep(s) ==
    /\ spc[s] = "locked"
    /\ should_stop' = TRUE
    /\ lock' = lock
    /\ spc' = [spc EXCEPT ![s] = "returned"]
    /\ stopped' = TRUE
    /\ UNCHANGED << inputs, pc, locals, output_folder,
                    calls, returns, decoded, saved, written, skipped, prestopped,
                    after_stop >>

\* Mutant: stop_processing flips the flag
StopSetToggle(s) ==
    /\ spc[s] = "locked"
    /\ should_stop' = ~should_stop
    /\ lock' = "free"
    /\ spc' = [spc EXCEPT ![s] = "returned"]
    /\ stopped' = TRUE
    /\ UNCHANGED << inputs, pc, locals, output_folder,
                    calls, returns, decoded, saved, written, skipped, prestopped,
                    after_stop >>

\* self.should_stop = True, the release of the lock and the return
StopSet(s) ==
    /\ spc[s] = "locked"
    /\ should_stop' = TRUE
    /\ lock' = "free"
    /\ spc' = [spc EXCEPT ![s] = "returned"]
    /\ stopped' = TRUE
    /\ UNCHANGED << inputs, pc, locals, output_folder,
                    calls, returns, decoded, saved, written, skipped, prestopped,
                    after_stop >>

Next ==
    \/ BatchResize
    \/ Validate
    \/ EntryAcquire
    \/ EntryCheck
    \/ ReadImage
    \/ Resize
    \/ FilterAcquire
    \/ FilterApply
    \/ SaveImage
    \/ Callback
    \/ Return
    \/ \E s \in Stoppers : StopAcquire(s)
    \/ \E s \in Stoppers : StopSet(s)

(***************************************************************************)
(* Specifications: the same engine, started on several families of inputs. *)
(***************************************************************************)
\* percentage=50.0
Percent50 == { << "percentage", 500 >> }

Brightness == << Entry("brightness", On) >>

\* Batches of up to MaxFiles files among two decodable files of the same
\* name in two directories and a corrupt file
BatchFiles == { PathA1, PathA2, PathC }

Init == InitWith(SeqsUpTo(BatchFiles, MaxFiles), { Percent50 }, { <<>>, Brightness })

Spec == Init /\ [][Next]_vars

\* Filter configurations of up to MaxFilters entries: the eight filters
\* enabled, an unknown filter enabled, a disabled entry, an entry without the
\* 'enabled' key
FilterEntries ==
    { Entry(n, On) : n \in FilterNames \cup { "sepia" } }
        \cup { Entry("blur", Off), Entry("flip", Unset) }

InitFilters ==
    InitWith({ << PathA1 >>, << PathC, PathA1 >> }, { Percent50 },
             Configs(FilterEntries, MaxFilters))

SpecFilters == InitFilters /\ [][Next]_vars

InitSizes ==
    InitWith({ <<>>, << PathA1 >>, << PathM, PathD >>, << PathC, PathB >> }, AllSizes,
             { <<>>, Brightness })

SpecSizes == InitSizes /\ [][Next]_vars

\* Input lists of up to MaxInputs paths among all the paths of the model:
\* decodable files, one of them with an upper-case suffix, a corrupt file, an
\* unreadable file, a file with a foreign suffix and a path that is no file
InitValidate == InitWith(SeqsUpTo(AllPaths, MaxInputs), { Percent50 }, { Brightness })

SpecValidate == InitValidate /\ [][Next]_vars

\* Batches in which every step of process_image can fail: a file that may
\* no longer decode, no sizing policy (calculate_new_size raises), brightness
\* after grayscale (the kernel raises on the one-channel buffer), a write
\* that raises
GrayThenBright == << Entry("grayscale", On), Entry("brightness", On) >>

InitFaults ==
    InitWith({ << PathA1, PathB >>, << PathA2, PathC, PathB, PathA1 >> },
             { Percent50, {} }, { Brightness, GrayThenBright })

SpecFaults == InitFaults /\ [][Next]_vars

\* Scheduling.  The processing thread, once batch_resize is called, keeps
\* running: each of its steps is taken if it stays possible.  Its two
\* "with self.lock:" block while a stop_processing call holds the lock and
\* are woken when it is released, so they are taken if the lock is free
\* again and again.  A stop_processing call that holds the lock goes on to
\* its assignment and its return.  Whether and when stop_processing is
\* called is up to its callers.
Fairness ==
    /\ WF_vars(Validate)
    /\ SF_vars(EntryAcquire)
    /\ WF_vars(EntryCheck)
    /\ WF_vars(ReadImage)
    /\ WF_vars(Resize)
    /\ SF_vars(FilterAcquire)
    /\ WF_vars(FilterApply)
    /\ WF_vars(SaveImage)
    /\ WF_vars(Callback)
    /\ WF_vars(Return)
    /\ \A s \in Stoppers : WF_vars(StopSet(s))

SpecFair == InitFaults /\ [][Next]_vars /\ Fairness

(***************************************************************************)
(* Helpers of the properties.                                              *)
(***************************************************************************)
IsPrefix(a, b) == Len(a) <= Len(b) /\ SubSeq(b, 1, Len(a)) = a

\* The number of process_image calls that returned True
Successes == Cardinality({ i \in DOMAIN returns : returns[i] })

\* The names of the valid files whose process_image returned False, in order
FailedValid ==
    LET F[i \in 0..Len(returns)] ==
            IF i = 0 THEN <<>>
            ELSE IF returns[i] THEN F[i - 1]
                 ELSE Append(F[i - 1], Name(valid_files[i]))
    IN  F[Len(returns)]

NothingWritten == \A n \in OutputNames : output_folder[n] = <<>>

\* process_image is running for valid_files[idx]
InProcessImage == pc \in { "check", "read", "resize", "filter", "kernel", "save" }

(***************************************************************************)
(* C1.  The order in which apply_filters applies the enabled filters.      *)
(***************************************************************************)
Rank(name) == CHOOSE i \in 1..Len(FilterOrder) : FilterOrder[i] = name

InCanonicalOrder(ops) ==
    \A i, j \in 1..Len(ops) : i < j => Rank(ops[i]) < Rank(ops[j])

C1_Applies(entry) ==
    /\ "enabled" \in DOMAIN entry.params
    /\ entry.params.enabled
    /\ entry.name \in { "grayscale", "blur", "sharpen", "edge_detect",
                        "brightness", "contrast", "rotate", "flip" }

\* The enabled known filters of the configuration, in its iteration order
C1_Expected ==
    LET sel == SelectSeq(filter_config, C1_Applies)
    IN  [i \in 1..Len(sel) |-> sel[i].name]

C2_NoPolicyNoFileTouched ==
    size_params = {} => decoded = {} /\ saved = {} /\ returns = <<>>

(***************************************************************************)
(* C3.  A stop seen at a filter-stage checkpoint.                          *)
(***************************************************************************)
\* C3 as claimed: a file one of whose filter stages saw the flag set is
\* recorded as failed: its process_image does not return True.
C3_StopAtFilterStageFails ==
    \A i \in skipped : i <= Len(returns) => ~returns[i]

(***************************************************************************)
(* C4.  stop_processing before batch_resize.                               *)
(***************************************************************************)
\* C4: if a stop_processing call returned before batch_resize was called,
\* no file is decoded by process_image or written, no process_image returns
\* True, and the outcome has success_count 0 and every valid file's name,
\* in order, in the failed names.
C4_StopBeforeRun ==
    prestopped =>
        /\ decoded = {} /\ saved = {} /\ NothingWritten
        /\ success_count = 0
        /\ \A i \in DOMAIN returns : ~returns[i]
        /\ pc = "done" =>
              result = << 0, Len(valid_files),
                          Names(valid_files) \o Names(invalid_files) >>

C4_Witness ==
    /\ prestopped
    /\ pc = "done"
    /\ Len(valid_files) >= 2
    /\ result[1] = 0 /\ Len(result[3]) >= 2

(***************************************************************************)
(* C5.  stop_processing while batch_resize runs.                           *)
(***************************************************************************)
\* C5: every valid file whose process_image began after a stop_processing
\* call had returned is neither decoded nor written and is recorded as
\* failed; the files that had succeeded stay counted: success_count is the
\* number of True returns so far, and so is the returned success_count.
C5_StopMidBatch ==
    /\ \A i \in after_stop :
          /\ i \notin decoded /\ i \notin saved
          /\ i <= Len(returns) => ~returns[i]
    /\ pc \notin { "idle", "validate" } /\ valid_files # <<>> =>
          success_count = Successes
    /\ pc = "done" /\ valid_files # <<>> =>
          /\ result[1] = Successes
          /\ Len(result[3]) >= Cardinality(after_stop)

\* the first file succeeded, the stop came during the run, a later file was
\* skipped
C5_Witness ==
    /\ pc = "done"
    /\ ~prestopped
    /\ Len(returns) >= 2 /\ returns[1]
    /\ after_stop # {}
    /\ result[1] >= 1

(***************************************************************************)
(* C6.  success_count + len(failed_file_names).                            *)
(***************************************************************************)
\* C6 as claimed: in every returned outcome success_count plus the number of
\* failed names is the returned total_count.
C6_SumIsTotalCount ==
    result # <<>> => result[1] + Len(result[3]) = result[2]

\* C6 as amended: in every returned outcome success_count plus the number of
\* failed names is total_count plus the number of invalid input files, that
\* is the number of input files.
C6_SumIsInputCount ==
    result # <<>> =>
        /\ result[1] + Len(result[3]) = result[2] + Len(invalid_files)
        /\ result[1] + Len(result[3]) = Len(image_files)

\* a success, a file skipped by cancellation and an invalid input in one run
C6_Witness ==
    /\ result # <<>>
    /\ invalid_files # <<>>
    /\ after_stop # {}
    /\ result[1] >= 1

(***************************************************************************)
(* C7.  The progress callback.                                             *)
(***************************************************************************)
\* C7: the k-th invocation of the callback has the arguments
\* (k, N, name of the k-th valid file); it is made after the k-th
\* process_image has returned and before the next begins; a run that returns
\* has made exactly N invocations, a run that a raising callback ended has
\* made the first idx of them, and none is made without a callback.
C7_ProgressCalls ==
    /\ \A k \in DOMAIN calls :
          calls[k] = << k, Len(valid_files), Name(valid_files[k]) >>
    /\ ~progress_callback => calls = <<>>
    /\ progress_callback =>
          /\ pc = "entry" \/ InProcessImage =>
                Len(calls) = idx - 1 /\ Len(returns) = idx - 1
          /\ pc = "callback" => Len(calls) = idx - 1 /\ Len(returns) = idx
          /\ pc \in { "return", "done" } /\ valid_files # <<>> =>
                Len(calls) = Len(valid_files) /\ Len(returns) = Len(valid_files)
          /\ pc = "raised" => Len(calls) = idx /\ Len(returns) = idx

\* a success, a processing failure and a file skipped by cancellation
C7_Witness ==
    /\ pc = "done"
    /\ Len(calls) = 3
    /\ returns[1] /\ ~returns[2] /\ 2 \notin after_stop /\ 3 \in after_stop

(***************************************************************************)
(* C8.  The returned outcome.                                              *)
(***************************************************************************)
\* C8: a run with at least one valid file returns the number of valid files
\* as total_count, the number of True returns as success_count, and as
\* failed names those of the valid files that failed, in order, followed by
\* those of the invalid files, in order.
C8_Outcome ==
    pc = "done" /\ valid_files # <<>> =>
        /\ Len(returns) = Len(valid_files)
        /\ result = << Successes, Len(valid_files),
                       FailedValid \o Names(invalid_files) >>

\* the corrupt file comes first in the input and last in the failed names
C8_Witness ==
    /\ pc = "done"
    /\ image_files = << PathC, PathA1, PathA2 >>
    /\ returns = << FALSE, TRUE >>
    /\ result = << 1, 2, << Name(PathA1), Name(PathC) >> >>

(***************************************************************************)
(* C9.  No valid file.                                                     *)
(***************************************************************************)
NoValidInput == \A i \in DOMAIN image_files : ~IsValid(image_files[i])

\* C9: when no input file is valid, batch_resize goes from validation to
\* its return: no process_image call, no file written, no callback, and the
\* outcome is (0, 0, the names of all input files in order).
C9_NoValidFiles ==
    NoValidInput =>
        /\ pc \in { "idle", "validate", "done" }
        /\ returns = <<>> /\ decoded = {} /\ saved = {} /\ calls = <<>>
        /\ NothingWritten
        /\ pc = "done" => result = << 0, 0, Names(image_files) >>

C9_Witness ==
    /\ pc = "done"
    /\ image_files = << PathM, PathD >>
    /\ progress_callback
    /\ result = << 0, 0, << Name(PathM), Name(PathD) >> >>

(***************************************************************************)
(* C10.  Non-positive size parameters.                                     *)
(***************************************************************************)
NonPositiveParam == \E kv \in size_params : kv[2] <= 0

\* C10 as claimed: with a width, height or percentage that is zero or
\* negative the batch does not start and the parameter is not clamped; so
\* no output file is written.
C10_NonPositiveRejected ==
    NonPositiveParam => saved = {} /\ NothingWritten

(***************************************************************************)
(* C11.  validate_images is a stable partition.                            *)
(***************************************************************************)
\* The elements of s at the positions of V, in the order of s
C11_Pick(s, V) ==
    LET F[i \in 0..Len(s)] ==
            IF i = 0 THEN <<>>
            ELSE IF i \in V THEN Append(F[i - 1], s[i]) ELSE F[i - 1]
    IN  F[Len(s)]

\* C11: once validate_images has returned, valid is the input list at the
\* positions whose path is in valid, and invalid is the input list at all
\* the other positions, each in input order; so every input path is in
\* exactly one of the two lists, as often as it is in the input, and the two
\* lengths add up to the input's.
C11_StablePartition ==
    pc \notin { "idle", "validate" } =>
        LET V == { i \in DOMAIN image_files :
                      \E j \in DOMAIN valid_files : valid_files[j] = image_files[i] }
        IN  /\ valid_files = C11_Pick(image_files, V)
            /\ invalid_files = C11_Pick(image_files, DOMAIN image_files \ V)
            /\ Len(valid_files) + Len(invalid_files) = Len(image_files)

\* two valid files around an invalid one
C11_Witness ==
    /\ pc = "done"
    /\ image_files = << PathA2, PathC, PathA1 >>
    /\ valid_files = << PathA2, PathA1 >>
    /\ invalid_files = << PathC >>

(***************************************************************************)
(* C12.  The classification of validate_images.                            *)
(***************************************************************************)
C12_AllowList ==
    { <<".", "j", "p", "g">>, <<".", "j", "p", "e", "g">>, <<".", "p", "n", "g">>,
      <<".", "b", "m", "p">>, <<".", "t", "i", "f", "f">>, <<".", "w", "e", "b", "p">> }

C12_In(p, files) == \E j \in DOMAIN files : files[j] = p

\* C12: once validate_images has returned, an input path is in valid if and
\* only if it is a regular file, its suffix in lower case is one of .jpg,
\* .jpeg, .png, .bmp, .tiff, .webp, and cv2.imread gave a buffer for it; a
\* path for which imread returned None or raised is in invalid; and
\* validation raises nothing: the run is then past it, and the only
\* exception that ends a run is one of the progress callback.
C12_Classification ==
    /\ pc \notin { "idle", "validate" } =>
          \A i \in DOMAIN image_files :
              LET p == image_files[i]
                  ok == /\ Disk(p).is_file
                        /\ Lower(p.suffix) \in C12_AllowList
                        /\ Disk(p).content = "image"
              IN  /\ C12_In(p, valid_files) <=> ok
                  /\ C12_In(p, invalid_files) <=> ~ok
                  /\ Disk(p).content \in { "corrupt", "unreadable" } =>
                        C12_In(p, invalid_files)
    /\ pc = "raised" => calls # <<>>

\* a file on which imread raises, then a decodable file named b.PNG
C12_Witness ==
    /\ pc = "done"
    /\ image_files = << PathE, PathB >>
    /\ valid_files = << PathB >>
    /\ invalid_files = << PathE >>
    /\ result = << 1, 1, << Name(PathE) >> >>

(***************************************************************************)
(* C13.  Resizing by percentage.                                           *)
(***************************************************************************)
\* C13 as claimed: with a percentage p > 0 every file written has the size
\* (max(1, floor(orig_w * p / 100)), max(1, floor(orig_h * p / 100))) for the
\* size orig_w x orig_h of the file it was decoded from; p is t tenths, so
\* orig * p / 100 is orig * t / 1000.
C13_PercentageFloor ==
    Has(size_params, "percentage") /\ Get(size_params, "percentage") > 0 =>
        \A n \in OutputNames :
            output_folder[n] # <<>> =>
                LET b == output_folder[n][1]
                    t == Get(size_params, "percentage")
                IN  /\ b.w = Max(1, (Disk(b.src[1]).w * t) \div 1000)
                    /\ b.h = Max(1, (Disk(b.src[1]).h * t) \div 1000)

(***************************************************************************)
(* C14.  Resizing by width or by height alone.                             *)
(***************************************************************************)
\* C14 as claimed: with only a width w > 0 supplied every file written has
\* the width w and the height max(1, floor(orig_h * w / orig_w)); with only
\* a height h > 0 supplied it has the height h and the width
\* max(1, floor(orig_w * h / orig_h)).
C14_AspectFloor ==
    \A n \in OutputNames :
        output_folder[n] # <<>> =>
            LET b == output_folder[n][1]
                ow == Disk(b.src[1]).w
                oh == Disk(b.src[1]).h
            IN  /\ \A w \in 1..MaxSize :
                      size_params = { << "width", w >> } =>
                          b.w = w /\ b.h = Max(1, (oh * w) \div ow)
                /\ \A h \in 1..MaxSize :
                      size_params = { << "height", h >> } =>
                          b.h = h /\ b.w = Max(1, (ow * h) \div oh)

(***************************************************************************)
(* C15.  apply_filters without an enabled known filter.                    *)
(***************************************************************************)
C15_Applies(entry) ==
    /\ "enabled" \in DOMAIN entry.params
    /\ entry.params.enabled
    /\ entry.name \in { "grayscale", "blur", "sharpen", "edge_detect",
                        "brightness", "contrast", "rotate", "flip" }

\* C15: when no entry of the configuration is both enabled and one of the
\* eight filters (entries with enabled false, entries without the flag,
\* unknown names, an empty configuration), apply_filters takes no lock, runs
\* no kernel and raises nothing: the buffer that reaches cv2.imwrite, and
\* the one written, is the resized buffer, three channels and no kernel
\* applied, and no file is recorded as having had a stage skipped.
C15_FiltersIdentity ==
    (\A i \in DOMAIN filter_config : ~C15_Applies(filter_config[i])) =>
        /\ pc \notin { "filter", "kernel" }
        /\ skipped = {}
        /\ pc = "save" =>
              image = [ src |-> << valid_files[idx] >>,
                        w |-> new_size[<< Disk(valid_files[idx]).w,
                                          Disk(valid_files[idx]).h >>, size_params][1],
                        h |-> new_size[<< Disk(valid_files[idx]).w,
                                          Disk(valid_files[idx]).h >>, size_params][2],
                        ch |-> 3, ops |-> <<>> ]
        /\ \A n \in OutputNames :
              output_folder[n] # <<>> =>
                  output_folder[n][1].ops = <<>> /\ output_folder[n][1].ch = 3

\* an entry without the flag and an enabled unknown filter: the file is
\* written as resized
C15_Witness ==
    /\ pc = "done"
    /\ filter_config = << Entry("flip", Unset), Entry("sepia", On) >>
    /\ returns = << TRUE >>
    /\ output_folder[Name(PathA1)] # <<>>
    /\ output_folder[Name(PathA1)][1].ops = <<>>

(***************************************************************************)
(* C16.  A failing file does not end the batch.                            *)
(***************************************************************************)
\* What batch_resize does after a process_image call for position i
C16_Next(i) ==
    IF progress_callback THEN pc' = "callback" /\ idx' = i
    ELSE IF i < total THEN pc' = "entry" /\ idx' = i + 1
    ELSE pc' = "return" /\ idx' = i

C16_Step ==
    /\ idx' \in { idx, idx + 1 }
    /\ returns' # returns =>
          /\ InProcessImage
          /\ Len(returns) = idx - 1
          /\ returns' = Append(returns, returns'[idx])
          /\ ~returns'[idx] =>
                /\ error_files' = Append(error_files, Name(valid_files[idx]))
                /\ success_count' = success_count
                /\ C16_Next(idx)
    /\ pc = "callback" /\ pc' \notin { "callback", "raised" } =>
          IF idx < total THEN pc' = "entry" /\ idx' = idx + 1
          ELSE pc' = "return" /\ idx' = idx

C16_Attempts ==
    /\ pc = "entry" \/ InProcessImage => Len(returns) = idx - 1
    /\ pc \in { "entry", "callback", "return" } \/ InProcessImage =>
          error_files = FailedValid
    /\ pc \in { "return", "done" } /\ valid_files # <<>> =>
          Len(returns) = Len(valid_files)

\* C16: process_image is called for the valid files one position after the
\* other and never twice for a position; when a call fails (the decode gives
\* nothing, or calculate_new_size, a kernel or the write raises, all of which
\* make it return False) the name of the file is appended once to the failed
\* names, the success count stays, and batch_resize goes on to the callback
\* and the next position exactly as after a success; a run that returns has
\* one outcome for every valid file.
C16_FailureContinues == []C16_Attempts /\ [][C16_Step]_vars

\* three valid files and a corrupt one: the kernel raises on each valid file,
\* and each is attempted
C16_Witness ==
    /\ pc = "done"
    /\ ~should_stop
    /\ filter_config = GrayThenBright /\ size_params = Percent50
    /\ Len(valid_files) = 3
    /\ decoded = { 1, 2, 3 }
    /\ returns = << FALSE, FALSE, FALSE >>
    /\ result = << 0, 3, << Name(PathA2), Name(PathB), Name(PathA1), Name(PathC) >> >>

(***************************************************************************)
(* C17.  A write that fails.                                               *)
(***************************************************************************)
\* C17 as claimed: a file whose write failed, by raising or by reporting
\* failure, is recorded as failed and not counted; so every file whose
\* process_image returned True has a file of its output name in the output
\* folder, and the success count is at most the number of names written.
C17_WriteFailureRecorded ==
    /\ \A i \in DOMAIN returns :
          returns[i] => output_folder[OutputName(valid_files[i])] # <<>>
    /\ pc = "done" /\ valid_files # <<>> /\ result[1] > 0 => ~NothingWritten

(***************************************************************************)
(* C18.  Every run completes.                                              *)
(***************************************************************************)
\* Validating, Processing(1..N), Completed, as a number
C18_Phase ==
    CASE pc = "idle" -> 0
      [] pc = "validate" -> 1
      [] pc = "entry" \/ pc = "callback" \/ InProcessImage -> 1 + idx
      [] pc = "return" -> 2 + Len(valid_files)
      [] OTHER -> 3 + Len(valid_files)

C18_Step ==
    /\ C18_Phase' >= C18_Phase
    /\ pc \in { "entry", "callback" } \/ InProcessImage => idx \in 1..Len(valid_files)
    /\ pc' = "raised" => pc \in { "callback", "raised" }

\* C18: the run goes through validation, the positions 1..N of the valid
\* files in increasing order, and its return, never backwards; nothing but
\* an exception of the progress callback leaves batch_resize as an
\* exception; a batch_resize call with a sizing policy whose callback always
\* returns reaches its return with an outcome, whatever stop_processing
\* calls are made meanwhile; a lock that is held is released; and a
\* stop_processing call that has the lock returns.
C18_Completes ==
    /\ [][C18_Step]_vars
    /\ (Policy(size_params) # "ValueError" /\ [](pc # "raised")) =>
           ((pc = "validate") ~> (pc = "done" /\ result # <<>>))
    /\ (lock # "free") ~> (lock = "free")
    /\ \A s \in Stoppers : (spc[s] = "locked") ~> (spc[s] = "returned")

\* a run of three valid files completed, a stop_processing call having
\* returned while it ran, after the first file had succeeded
C18_Witness ==
    /\ pc = "done"
    /\ size_params = Percent50
    /\ ~prestopped /\ stopped /\ spc[1] = "returned"
    /\ Len(returns) = 3 /\ returns[1]
    /\ result[2] = 3

(***************************************************************************)
(* C19.  One file at a time.                                               *)
(***************************************************************************)
\* C19: a position whose process_image has decoded or written but not yet
\* returned is the current position idx, so at most one file is in flight;
\* a buffer is held only while process_image runs; and while position idx
\* is being processed, or is about to be, every earlier position has
\* returned and, with a callback, has had its callback invoked and returned.
C19_Sequential ==
    /\ \A i \in decoded \cup saved :
          i <= Len(returns) \/ (i = idx /\ InProcessImage)
    /\ ~InProcessImage => image = NoImage
    /\ pc = "entry" \/ InProcessImage =>
          /\ Len(returns) = idx - 1
          /\ progress_callback => Len(calls) = idx - 1
    /\ pc = "callback" => Len(returns) = idx /\ Len(calls) = idx - 1

\* the second file is in flight; the first is written, has returned and its
\* callback has been made
C19_Witness ==
    /\ pc = "resize"
    /\ idx = 2
    /\ image # NoImage
    /\ decoded = { 1, 2 } /\ saved = { 1 }
    /\ returns = << TRUE >>
    /\ progress_callback /\ Len(calls) = 1

(***************************************************************************)
(* C20.  stop_processing.                                                  *)
(***************************************************************************)
\* What stop_processing leaves alone: the arguments, the position and the
\* locals of batch_resize, and the output folder
C20_Rest == << inputs, pc, locals, output_folder >>

C20_Step ==
    /\ should_stop => should_stop'
    /\ \A s \in Stoppers :
          /\ spc[s] # "locked" /\ spc'[s] = "locked" =>
                /\ lock = "free" /\ lock' = "stopper"
                /\ UNCHANGED << should_stop, C20_Rest >>
          /\ spc[s] = "locked" =>
                /\ spc'[s] \in { "locked", "returned" }
                /\ spc'[s] = "returned" =>
                      /\ should_stop' /\ lock' = "free"
                      /\ UNCHANGED C20_Rest
                      /\ should_stop => UNCHANGED should_stop

\* C20: a stop_processing call, made before, during or after a run, for the
\* first time or again, takes the lock, sets the flag, releases the lock and
\* returns, and changes nothing else; when the flag is already set the call
\* leaves the engine as it found it; no step of the engine clears the flag;
\* and once a call has returned the flag is set.
C20_StopIdempotent == [](stopped => should_stop) /\ [][C20_Step]_vars

\* a further call holds the lock during a run, the flag being set already
C20_Witness ==
    /\ stopped /\ should_stop
    /\ spc[1] = "locked"
    /\ pc = "resize"

(***************************************************************************)
(* C21.  One output file per success.                                      *)
(***************************************************************************)
\* C21 as claimed: when a run has returned, the number of files in the
\* output folder is the returned success_count, every one of them is under
\* the output name (stem and extension, the prefix being empty) of a file
\* whose process_image returned True, and no file whose process_image
\* returned False was written.
C21_OneOutputPerSuccess ==
    pc = "done" /\ valid_files # <<>> =>
        /\ Cardinality({ n \in OutputNames : output_folder[n] # <<>> }) = result[1]
        /\ \A n \in OutputNames :
              output_folder[n] # <<>> =>
                  \E i \in DOMAIN returns :
                      returns[i] /\ n = valid_files[i].stem \o valid_files[i].suffix
        /\ \A i \in written : returns[i]

(***************************************************************************)
(* C22.  Two inputs of one output name.                                    *)
(***************************************************************************)
\* The positions whose write went to the output name n
C22_Writers(n) ==
    { i \in written : valid_files[i].stem \o valid_files[i].suffix = n }

\* C22: under every output name lies what the last position that wrote to
\* it has written, whatever lay there before, and nothing lies under a name
\* no position wrote to; every position that wrote returns True, an earlier
\* one whose file was replaced included, and is counted in success_count.
C22_LastWriteWins ==
    /\ \A n \in OutputNames :
          IF C22_Writers(n) = {}
          THEN output_folder[n] = <<>>
          ELSE LET last == CHOOSE i \in C22_Writers(n) :
                               \A k \in C22_Writers(n) : k <= i
               IN  /\ output_folder[n] # <<>>
                   /\ output_folder[n][1].src = << valid_files[last] >>
    /\ \A i \in written : i <= Len(returns) => returns[i]
    /\ pc = "done" /\ valid_files # <<>> => result[1] >= Cardinality(written)

\* d1/a.jpg then d2/a.jpg: both written and counted, a.jpg holds the second
C22_Witness ==
    /\ pc = "done"
    /\ image_files = << PathA1, PathA2 >>
    /\ written = { 1, 2 }
    /\ result = << 2, 2, <<>> >>
    /\ output_folder[Name(PathA2)][1].src = << PathA2 >>

(***************************************************************************)
(* C23.  The buffer that one filter stage hands to the next.               *)
(***************************************************************************)
\* C23 as claimed: a stage that converts its input from three channels
\* (edge_detect, brightness, contrast) is handed a three-channel buffer,
\* after grayscale too, so it does not raise and process_image does not fail
\* in apply_filters.
C23_WorkingChannels ==
    pc = "kernel" /\ filter_config[fidx].name \in { "edge_detect", "brightness", "contrast" } =>
        /\ image.ch = 3
        /\ ~KernelRaises(filter_config[fidx].name, image)

(***************************************************************************)
(* C24.  The stop flag at the filter stages.                               *)
(***************************************************************************)
\* The step that ends an iteration of the loop body of apply_filters
C24_Step ==
    pc = "kernel" /\ pc' # "kernel" =>
        IF stopped
        THEN /\ image' = image
             /\ pc' \in { "filter", "save" }
             /\ idx \in skipped'
        ELSE \/ /\ pc' \in { "filter", "save" }
                /\ image'.ops = Append(image.ops, filter_config[fidx].name)
             \/ /\ pc' \notin { "filter", "save" }
                /\ Len(returns') = idx /\ ~returns'[idx]

\* C24: every iteration of apply_filters that reaches an enabled filter
\* reads the flag under the lock, so no stop_processing call sets it between
\* the test and the kernel; once a stop_processing call has returned, the
\* iteration leaves the buffer as the stages before it made it and the loop
\* goes on to the next entry or to the write, and no kernel is applied to
\* any buffer from then on; an iteration that found the flag clear applies
\* its kernel to the end (or the kernel raises).
C24_StopSkipsStages ==
    /\ [](pc = "kernel" => lock = "worker" /\ (should_stop <=> stopped))
    /\ [][C24_Step]_vars
    /\ [][stopped /\ image' # NoImage /\ image # NoImage => image'.ops = image.ops]_vars

\* two enabled filters, the stop between them: the first is applied, the
\* second is not, and the buffer goes to the write with the first only
C24_Witness ==
    /\ pc = "save"
    /\ stopped
    /\ idx \in skipped
    /\ Len(filter_config) = 2
    /\ \A i \in 1..2 : Active(filter_config[i])
    /\ image.ops = << filter_config[1].name >>

(***************************************************************************)
(* C25.  The lock around the stop flag.                                    *)
(***************************************************************************)
\* The processing thread is at one of its two reads of the flag
C25_Reading == pc \in { "check", "kernel" }

\* The stop_processing call s is at its write of the flag
C25_Writing(s) == spc[s] = "locked"

C25_Exclusion ==
    /\ C25_Reading <=> lock = "worker"
    /\ (\E s \in Stoppers : C25_Writing(s)) <=> lock = "stopper"
    /\ \A s, t \in Stoppers : C25_Writing(s) /\ C25_Writing(t) => s = t
    /\ \A s \in Stoppers : ~(C25_Reading /\ C25_Writing(s))

C25_Step ==
    /\ should_stop' # should_stop =>
          /\ lock = "stopper"
          /\ \E s \in Stoppers : C25_Writing(s) /\ spc'[s] = "returned"
    /\ spc' # spc => UNCHANGED << inputs, pc, locals, output_folder >>
    /\ pc' # pc => UNCHANGED << should_stop, spc >>

\* C25: the processing thread is at a read of the flag exactly while it
\* holds the lock, a stop_processing call is at its write exactly while it
\* holds the lock, so no read and no write are in progress together and no
\* two writes are; the flag changes only in the step of a stop_processing
\* call that holds the lock; a stop_processing call changes nothing of the
\* engine but the flag and the lock, and the processing thread never writes
\* the flag.
C25_FlagUnderLock == []C25_Exclusion /\ [][C25_Step]_vars

\* a stop_processing call holds the lock for its write while the processing
\* thread waits at the lock of a filter stage for its read
C25_Witness ==
    /\ pc = "filter"
    /\ lock = "stopper"
    /\ spc[1] = "locked"
    /\ ~should_stop

(***************************************************************************)
(* C26.  The stop flag at the call of batch_resize.                        *)
(***************************************************************************)
\* C26 as claimed: the call of batch_resize leaves the flag clear, whatever
\* stop_processing calls the instance has seen before it, so that the batch
\* processes its files.
C26_FlagClearAtBatchStart ==
    [][pc = "idle" /\ pc' = "validate" => ~should_stop']_vars

(***************************************************************************)
(* C27.  Several sizing parameters at once.                                *)
(***************************************************************************)
\* The value of the parameter k, 0 when it is not supplied
C27_Value(k) == IF Has(size_params, k) THEN Get(size_params, k) ELSE 0

\* The size by precedence, before the clamp to 1
C27_Expected(ow, oh) ==
    LET p == C27_Value("percentage")
        w == C27_Value("width")
        h == C27_Value("height")
    IN  IF p # 0 THEN << IntPercent(ow, p), IntPercent(oh, p) >>
        ELSE IF w # 0 /\ h # 0 THEN << w, h >>
        ELSE IF w # 0 THEN << w, IntScale(oh, w, ow) >>
        ELSE << IntScale(ow, h, oh), h >>

C27_Step ==
    pc = "resize" /\ pc' # "resize" =>
        IF \A k \in { "percentage", "width", "height" } : C27_Value(k) = 0
        THEN pc' \notin { "filter", "save" }
        ELSE /\ pc' \in { "filter", "save" }
             /\ image'.w = Max(1, C27_Expected(image.w, image.h)[1])
             /\ image'.h = Max(1, C27_Expected(image.w, image.h)[2])

\* C27: whatever combination of width, height and percentage is supplied,
\* calculate_new_size raises nothing as soon as one of them is not zero, and
\* the buffer is resized by the percentage if it is not zero, else to width
\* by height if neither is zero, else by the width if it is not zero, else
\* by the height; a parameter that is 0 counts as one that is not supplied,
\* and with none left process_image fails.
C27_Precedence == [][C27_Step]_vars

\* width=2, height=1 and percentage=50.0 on the 125x2 file: 62x1, not 2x1
C27_Witness ==
    /\ pc = "save"
    /\ size_params = { << "width", 2 >>, << "height", 1 >>, << "percentage", 500 >> }
    /\ image.src = << PathA1 >>
    /\ image.w = 62 /\ image.h = 1

(***************************************************************************)
(* C28.  A progress callback that raises.                                  *)
(***************************************************************************)
\* What the processing thread has done: its position, its locals, the
\* output folder and the record of its calls
C28_Done == << pc, locals, output_folder, calls, returns, decoded, saved, written >>

\* The exception has left batch_resize at position idx
C28_Raised ==
    pc = "raised" =>
        /\ result = <<>>
        /\ Len(returns) = idx /\ Len(calls) = idx
        /\ \A i \in decoded \cup saved \cup written : i <= idx

\* C28: when the progress callback raises after the file at position idx,
\* the exception leaves batch_resize: no outcome is returned, the files
\* after position idx have not been read or written, and nothing is
\* processed, written or called from then on.
C28_CallbackRaises ==
    /\ []C28_Raised
    /\ [][pc = "raised" => UNCHANGED C28_Done]_vars

\* the callback raises after the first of three valid files, which was
\* written; the two others are never processed
C28_Witness ==
    /\ pc = "raised"
    /\ valid_files = << PathA2, PathB, PathA1 >>
    /\ idx = 1
    /\ returns = << TRUE >> /\ written = { 1 } /\ decoded = { 1 }
    /\ result = <<>>

====
